---- MODULE Spec2Model ----
(***************************************************************************)
(* pg-mcp: the catalog-introspection resources (server/resources/schema.py)*)
(* and the sampling resource (app/resources/data.py), over a model of the  *)
(* PostgreSQL catalogs the SQL text of those resources reads.              *)
(*                                                                         *)
(* Text values that the code or the SQL inspects character by character    *)
(* (schema names under LIKE, identifiers under quote_ident, every name an  *)
(* ORDER BY sorts) are sequences of one-character strings.                 *)
(***************************************************************************)
EXTENDS Integers, Sequences, FiniteSets, TLC

\* ------------------------------------------------------------------ bounds
\* Longest key-column array (conkey, confkey, indkey) of a drawn constraint/index.
MaxKeyLen == 2
\* Constraints in a drawn pg_constraint, indexes in a drawn pg_index.
MaxCons == 2
MaxIdx == 2
\* Callers whose get_sample_data calls run concurrently.
NCalls == 2
\* Rows of the sampled table public.orders.
OrdersRows == 12

\* ------------------------------------------------------------- SQL values
\* SQL NULL in a name-valued column, in an opaque text column, in a number column.
NULL == <<"NULL">>
NullStr == "<NULL>"
NullNum == -1
\* A key-column array that is NULL (pg_constraint.conkey of a constraint trigger).
NullArray == <<-1>>

\* The characters of the model in code-point order (the C collation).
Ascii ==
  << " ", "\"", "0", "1", "2", ";", "A", "_", "a", "b", "c", "d", "e", "f", "g",
     "h", "i", "j", "k", "l", "m", "n", "o", "p", "q", "r", "s", "t", "u", "v",
     "w", "x", "y", "z" >>

Ord(ch) == CHOOSE i \in DOMAIN Ascii : Ascii[i] = ch

\* a < b for two texts, character by character (ORDER BY on a name column).
RECURSIVE TextLess(_, _)
TextLess(a, b) ==
  IF b = <<>> THEN FALSE
  ELSE IF a = <<>> THEN TRUE
  ELSE IF Head(a) = Head(b) THEN TextLess(Tail(a), Tail(b))
  ELSE Ord(Head(a)) < Ord(Head(b))

\* The elements of the set S as a sequence in ascending order of their text key
\* (ORDER BY on name columns). key and tie are functions on S; rows with equal
\* keys, which ORDER BY leaves in any order, are put in the order of tie.
OrderByKey(S, key, tie) ==
  LET Before(y, x) == TextLess(key[y], key[x]) \/ (key[y] = key[x] /\ tie[y] < tie[x])
  IN  [i \in 1..Cardinality(S) |->
         CHOOSE x \in S : Cardinality({y \in S : Before(y, x)}) = i - 1]

\* a sorts before b under ORDER BY ... ASC on a number column (NULLS LAST).
NumLess(a, b) == a # NullNum /\ (b = NullNum \/ a < b)

\* ARRAY_AGG(v ORDER BY k) over the joined rows of one group: rows is the
\* sequence of [k, v] the join produced; rows with equal k keep the join's order.
ArrayAgg(rows) ==
  LET Before(j, i) == NumLess(rows[j].k, rows[i].k) \/ (rows[j].k = rows[i].k /\ j < i)
      Rank(i) == Cardinality({j \in DOMAIN rows : Before(j, i)}) + 1
  IN  [p \in DOMAIN rows |-> rows[CHOOSE i \in DOMAIN rows : Rank(i) = p].v]

\* s LIKE pat: '%' matches any run of characters, '_' any one character.
RECURSIVE Like(_, _)
Like(s, pat) ==
  IF pat = <<>> THEN s = <<>>
  ELSE IF Head(pat) = "%"
       THEN Like(s, Tail(pat)) \/ (s # <<>> /\ Like(Tail(s), pat))
  ELSE IF s = <<>> THEN FALSE
  ELSE IF Head(pat) = "_" THEN Like(Tail(s), Tail(pat))
  ELSE Head(s) = Head(pat) /\ Like(Tail(s), Tail(pat))

\* ------------------------------------------------------------------ names
pg_catalog == <<"p","g","_","c","a","t","a","l","o","g">>
information_schema ==
  <<"i","n","f","o","r","m","a","t","i","o","n","_","s","c","h","e","m","a">>
pg_toast == <<"p","g","_","t","o","a","s","t">>
pg_temp_1 == <<"p","g","_","t","e","m","p","_","1">>
pgdata == <<"p","g","d","a","t","a">>
pgx == <<"p","g","x">>
public == <<"p","u","b","l","i","c">>
app == <<"a","p","p">>
orders == <<"o","r","d","e","r","s">>
stock == <<"s","t","o","c","k">>
recent == <<"r","e","c","e","n","t">>
k1 == <<"k","1">>
k2 == <<"k","2">>
i1 == <<"i","1">>
i2 == <<"i","2">>

\* The column names of the fixture.
id == <<"i","d">>
cust == <<"c","u","s","t">>
cid == <<"c","i","d">>
iid == <<"i","i","d">>
ref == <<"r","e","f">>

VARIABLES
  pg_namespace,   \* catalog: the schemas
  pg_constraint,  \* catalog: the constraints
  pg_index,       \* catalog: the indexes
  pc,             \* db_info: the query it is about to issue ("idle": no call runs)
  schemas,        \* db_info: the rows of its schemas query
  si,             \* db_info: index in schemas of the schema of the outer loop
  tables,         \* db_info: the rows of the tables query of that schema
  ti,             \* db_info: index in tables of the table of the inner loop
  columns,        \* db_info: the rows of the columns query of that table
  result,         \* db_info: result["schemas"], the schema_info appended so far
  schema_info,    \* db_info: schema_info["tables"], the table_info appended so far
  table_info,     \* db_info: the table_info being filled
  qlog,           \* the queries the running or last call handed to execute_query
  db_raised,      \* whether the database raised on the last query
  resp,           \* what the last finished resource call gave its caller
  clients,        \* sampling: per caller, the requests it may make
  call            \* sampling: per caller, the frame of its get_sample_data call

catalog_vars == <<pg_namespace, pg_constraint, pg_index>>
sample_vars == <<clients, call>>
db_info_vars == <<pc, schemas, si, tables, ti, columns, result, schema_info, table_info>>

\* ---------------------------------------------------------------- catalog
\* The schemas every database has, and the user schemas of the fixture.
SystemNamespaces ==
  { [oid |-> 11, nspname |-> pg_catalog, descr |-> "system catalog schema"],
    [oid |-> 12, nspname |-> information_schema, descr |-> NullStr],
    [oid |-> 13, nspname |-> pg_toast, descr |-> "reserved schema for TOAST tables"],
    [oid |-> 14, nspname |-> pg_temp_1, descr |-> NullStr] }

BaseNamespaces ==
  SystemNamespaces \cup
  { [oid |-> 20, nspname |-> public, descr |-> "standard public schema"],
    [oid |-> 21, nspname |-> app, descr |-> NullStr] }

\* User schemas a database may or may not have.
OptionalNamespaces ==
  { [oid |-> 22, nspname |-> pgdata, descr |-> NullStr],
    [oid |-> 23, nspname |-> pgx, descr |-> "extensions"] }

\* pg_class: the relations (r: table, v: view); ins is pg_stat_get_tuples_inserted.
pg_class ==
  { [oid |-> 101, relname |-> orders, relnamespace |-> 20, relkind |-> "r",
     descr |-> "customer orders", ins |-> 7],
    [oid |-> 102, relname |-> stock, relnamespace |-> 20, relkind |-> "r",
     descr |-> NullStr, ins |-> 0],
    [oid |-> 103, relname |-> orders, relnamespace |-> 21, relkind |-> "r",
     descr |-> NullStr, ins |-> 3],
    [oid |-> 104, relname |-> recent, relnamespace |-> 21, relkind |-> "v",
     descr |-> "latest orders", ins |-> 0] }

\* The columns of the relations: pg_attribute (attrelid, attnum, attname) and the
\* per-column facts information_schema.columns shows.
TableColumns ==
  { [attrelid |-> 101, attnum |-> 1, attname |-> id, data_type |-> "integer",
     is_nullable |-> "NO", column_default |-> "nextval('orders_id_seq')",
     descr |-> "order number"],
    [attrelid |-> 101, attnum |-> 2, attname |-> cust, data_type |-> "integer",
     is_nullable |-> "YES", column_default |-> NullStr, descr |-> NullStr],
    [attrelid |-> 102, attnum |-> 1, attname |-> cid, data_type |-> "integer",
     is_nullable |-> "NO", column_default |-> NullStr, descr |-> NullStr],
    [attrelid |-> 102, attnum |-> 2, attname |-> iid, data_type |-> "text",
     is_nullable |-> "NO", column_default |-> "''", descr |-> "item code"],
    [attrelid |-> 103, attnum |-> 1, attname |-> id, data_type |-> "bigint",
     is_nullable |-> "NO", column_default |-> NullStr, descr |-> NullStr],
    [attrelid |-> 103, attnum |-> 2, attname |-> ref, data_type |-> "text",
     is_nullable |-> "YES", column_default |-> NullStr, descr |-> "external reference"],
    [attrelid |-> 104, attnum |-> 1, attname |-> id, data_type |-> "integer",
     is_nullable |-> "YES", column_default |-> NullStr, descr |-> NullStr] }

pg_attribute == TableColumns

AttNums(relid) == {a.attnum : a \in {x \in pg_attribute : x.attrelid = relid}}

\* The namespace row of a relation, the relation with an oid.
Class(oid) == CHOOSE t \in pg_class : t.oid = oid
NamespaceOf(t) == CHOOSE n \in pg_namespace : n.oid = t.relnamespace

\* LEFT JOIN pg_attribute ON attrelid = relid AND attnum = num: the one matching
\* attname, or NULL when no row matches (num is NULL, or 0 for an expression).
AttName(relid, num) ==
  IF \E a \in pg_attribute : a.attrelid = relid /\ a.attnum = num
  THEN (CHOOSE a \in pg_attribute : a.attrelid = relid /\ a.attnum = num).attname
  ELSE NULL

\* unnest(arr) WITH ORDINALITY: the rows (attnum, attposition); none for NULL or '{}'.
Unnest(arr) ==
  IF arr = NullArray THEN <<>>
  ELSE [i \in DOMAIN arr |-> [attnum |-> arr[i], attposition |-> i]]

\* left LEFT JOIN LATERAL unnest(arr) WITH ORDINALITY ON cond: the unnested rows when
\* cond holds and there are any, else the one null-extended row.
LeftJoinUnnest(arr, cond) ==
  IF cond /\ Unnest(arr) # <<>> THEN Unnest(arr)
  ELSE << [attnum |-> NullNum, attposition |-> NullNum] >>

\* ------------------------------------------------- the catalog query set
\* WHERE schema_name NOT IN (...) AND schema_name NOT LIKE 'pg_%'.
SchemaFilter(name) ==
  /\ name \notin {pg_catalog, information_schema, pg_toast}
  /\ ~Like(name, <<"p", "g", "_", "%">>)

\* information_schema.schemata JOIN pg_namespace, filtered, ORDER BY schema_name.
schemas_query ==
  LET S == {n \in pg_namespace : SchemaFilter(n.nspname)}
      sorted == OrderByKey(S, [n \in S |-> n.nspname], [n \in S |-> n.oid])
  IN  [i \in DOMAIN sorted |->
         [schema_name |-> sorted[i].nspname, description |-> sorted[i].descr]]

\* information_schema.tables of one schema, base tables only, ORDER BY table_name.
TablesOf(schema) ==
  {t \in pg_class :
     /\ \E n \in pg_namespace : n.oid = t.relnamespace /\ n.nspname = schema
     /\ t.relkind = "r"}

tables_query(schema) ==
  LET S == TablesOf(schema)
      sorted == OrderByKey(S, [t \in S |-> t.relname], [t \in S |-> t.oid])
  IN  [i \in DOMAIN sorted |->
         [table_name |-> sorted[i].relname, description |-> sorted[i].descr,
          row_count |-> sorted[i].ins]]

\* information_schema.columns of one relation, ORDER BY ordinal_position.
columns_query(schema, table) ==
  LET S == {a \in TableColumns :
              \E t \in pg_class :
                /\ t.oid = a.attrelid /\ t.relname = table
                /\ \E n \in pg_namespace : n.oid = t.relnamespace /\ n.nspname = schema}
      rows == [i \in 1..Cardinality(S) |->
                 CHOOSE a \in S : Cardinality({b \in S : b.attnum < a.attnum}) = i - 1]
  IN  [i \in DOMAIN rows |->
         [column_name |-> rows[i].attname, data_type |-> rows[i].data_type,
          is_nullable |-> rows[i].is_nullable, column_default |-> rows[i].column_default,
          description |-> rows[i].descr]]

\* pg_constraint c JOIN pg_namespace n ON n.oid = c.connamespace
\*                 JOIN pg_class t ON t.oid = c.conrelid
\* WHERE n.nspname = $1 AND t.relname = $2.
ConstraintsOf(schema, table) ==
  {c \in pg_constraint :
     /\ \E n \in pg_namespace : n.oid = c.connamespace /\ n.nspname = schema
     /\ \E t \in pg_class : t.oid = c.conrelid /\ t.relname = table}

\* The label CASE of get_table_constraints and get_constraint_details.
constraint_type_desc(contype) ==
  CASE contype = "p" -> "PRIMARY KEY"
    [] contype = "u" -> "UNIQUE"
    [] contype = "f" -> "FOREIGN KEY"
    [] contype = "c" -> "CHECK"
    [] contype = "t" -> "TRIGGER"
    [] contype = "x" -> "EXCLUSION"
    [] OTHER -> "OTHER"

\* The label CASE of db_info's constraints_query.
db_info_constraint_type_desc(contype) ==
  CASE contype = "p" -> "PRIMARY KEY"
    [] contype = "u" -> "UNIQUE"
    [] contype = "f" -> "FOREIGN KEY"
    [] contype = "c" -> "CHECK"
    [] OTHER -> "OTHER"

\* The joined rows of one constraint under
\*   LEFT JOIN LATERAL unnest(c.conkey) WITH ORDINALITY AS u ON TRUE
\*   LEFT JOIN pg_attribute col ON col.attrelid = t.oid AND col.attnum = u.attnum
\* as [k |-> u.attposition, v |-> col.attname].
KeyRows(c) ==
  LET u == LeftJoinUnnest(c.conkey, TRUE)
  IN  [i \in DOMAIN u |-> [k |-> u[i].attposition, v |-> AttName(c.conrelid, u[i].attnum)]]

\* The joined rows of every constraint of one GROUP BY group, in oid order.
RECURSIVE GroupKeyRows(_)
GroupKeyRows(C) ==
  IF C = {} THEN <<>>
  ELSE LET c == CHOOSE x \in C : \A y \in C : x.oid <= y.oid
       IN  KeyRows(c) \o GroupKeyRows(C \ {c})

\* CASE WHEN c.contype = 'f' THEN <schema of ref_table> || '.' || ref_table.relname.
referenced_table(c) ==
  IF c.contype = "f" /\ \E t \in pg_class : t.oid = c.confrelid
  THEN NamespaceOf(Class(c.confrelid)).nspname \o <<".">> \o Class(c.confrelid).relname
  ELSE NULL

\* The output row of get_table_constraints for one constraint (one group: the
\* GROUP BY includes c.oid).
ConstraintRow(c) ==
  [constraint_name |-> c.conname, constraint_type |-> c.contype,
   constraint_type_desc |-> constraint_type_desc(c.contype),
   description |-> c.descr, definition |-> <<"constraintdef", c.oid>>,
   referenced_table |-> referenced_table(c),
   column_names |-> ArrayAgg(KeyRows(c))]

\* get_table_constraints' query: ORDER BY c.contype, c.conname.
table_constraints_query(schema, table) ==
  LET S == ConstraintsOf(schema, table)
      sorted == OrderByKey(S, [c \in S |-> <<c.contype>> \o c.conname], [c \in S |-> c.oid])
  IN  [i \in DOMAIN sorted |-> ConstraintRow(sorted[i])]

\* db_info's constraints_query: GROUP BY c.conname, c.contype; ORDER BY the same.
constraints_query(schema, table) ==
  LET S == ConstraintsOf(schema, table)
      G == {<<c.contype, c.conname>> : c \in S}
      Members(g) == {c \in S : <<c.contype, c.conname>> = g}
      sorted == OrderByKey(G, [g \in G |-> <<g[1]>> \o g[2]], [g \in G |-> 0])
  IN  [i \in DOMAIN sorted |->
         [constraint_name |-> sorted[i][2], constraint_type |-> sorted[i][1],
          constraint_type_desc |-> db_info_constraint_type_desc(sorted[i][1]),
          column_names |-> ArrayAgg(GroupKeyRows(Members(sorted[i])))]]

\* FkRows with the referenced columns aggregated in the order of the local
\* ordinality (ORDER BY u.attposition in both ARRAY_AGGs).
FkRows_RefOrderedByLocal(c) ==
  LET u == LeftJoinUnnest(c.conkey, TRUE)
      u2 == LeftJoinUnnest(c.confkey, TRUE)
  IN  [p \in 1..(Len(u) * Len(u2)) |->
         LET i == ((p - 1) \div Len(u2)) + 1
             j == ((p - 1) % Len(u2)) + 1
         IN  [upos |-> u[i].attposition, col |-> AttName(c.conrelid, u[i].attnum),
              u2pos |-> u[i].attposition, ref_col |-> AttName(c.confrelid, u2[j].attnum)]]

\* The joined rows of one foreign key under db_info's foreign_keys_query: the two
\* lateral unnests are both joined ON TRUE, so every key row meets every
\* referenced-key row.
FkRows(c) ==
  LET u == LeftJoinUnnest(c.conkey, TRUE)
      u2 == LeftJoinUnnest(c.confkey, TRUE)
  IN  [p \in 1..(Len(u) * Len(u2)) |->
         LET i == ((p - 1) \div Len(u2)) + 1
             j == ((p - 1) % Len(u2)) + 1
         IN  [upos |-> u[i].attposition, col |-> AttName(c.conrelid, u[i].attnum),
              u2pos |-> u2[j].attposition, ref_col |-> AttName(c.confrelid, u2[j].attnum)]]

RECURSIVE GroupFkRows(_)
GroupFkRows(C) ==
  IF C = {} THEN <<>>
  ELSE LET c == CHOOSE x \in C : \A y \in C : x.oid <= y.oid
       IN  FkRows(c) \o GroupFkRows(C \ {c})

\* db_info's foreign_keys_query: inner joins to the referenced table and its
\* schema, WHERE ... AND c.contype = 'f', GROUP BY c.conname, nr.nspname,
\* ref_table.relname, ORDER BY c.conname.
foreign_keys_query(schema, table) ==
  LET S == {c \in ConstraintsOf(schema, table) :
              c.contype = "f" /\ \E t \in pg_class : t.oid = c.confrelid}
      GroupOf(c) == <<c.conname, NamespaceOf(Class(c.confrelid)).nspname,
                      Class(c.confrelid).relname>>
      G == {GroupOf(c) : c \in S}
      sorted == OrderByKey(G, [g \in G |-> g[1]], [g \in G |-> 0])
      Rows(g) == GroupFkRows({c \in S : GroupOf(c) = g})
  IN  [i \in DOMAIN sorted |->
         LET rows == Rows(sorted[i])
         IN  [constraint_name |-> sorted[i][1],
              column_names |->
                ArrayAgg([r \in DOMAIN rows |-> [k |-> rows[r].upos, v |-> rows[r].col]]),
              referenced_schema |-> sorted[i][2],
              referenced_table |-> sorted[i][3],
              referenced_columns |->
                ArrayAgg([r \in DOMAIN rows |-> [k |-> rows[r].u2pos, v |-> rows[r].ref_col]])]]

\* The joined rows of one constraint under get_constraint_details' query: the
\* second lateral unnest and the referenced attribute are joined ON c.contype = 'f'.
DetailRows(c) ==
  LET u == LeftJoinUnnest(c.conkey, TRUE)
      u2 == LeftJoinUnnest(c.confkey, c.contype = "f")
  IN  [p \in 1..(Len(u) * Len(u2)) |->
         LET i == ((p - 1) \div Len(u2)) + 1
             j == ((p - 1) % Len(u2)) + 1
         IN  [upos |-> u[i].attposition, col |-> AttName(c.conrelid, u[i].attnum),
              u2pos |-> u2[j].attposition,
              ref_col |-> IF c.contype = "f" THEN AttName(c.confrelid, u2[j].attnum)
                          ELSE NULL]]

\* The output row of get_constraint_details for one constraint.
ConstraintDetailRow(c) ==
  LET rows == DetailRows(c)
  IN  [constraint_name |-> c.conname, constraint_type |-> c.contype,
       constraint_type_desc |-> constraint_type_desc(c.contype),
       description |-> c.descr, definition |-> <<"constraintdef", c.oid>>,
       referenced_table |-> referenced_table(c),
       column_names |->
         ArrayAgg([r \in DOMAIN rows |-> [k |-> rows[r].upos, v |-> rows[r].col]]),
       referenced_columns |->
         IF c.contype = "f"
         THEN ArrayAgg([r \in DOMAIN rows |-> [k |-> rows[r].u2pos, v |-> rows[r].ref_col]])
         ELSE NULL]

\* ConstraintDetailWhere looking the constraint up by its name alone.
ConstraintDetailWhere_NameOnly(schema, table, constraint) ==
  {c \in pg_constraint : c.conname = constraint}

\* WHERE n.nspname = $1 AND t.relname = $2 AND c.conname = $3.
ConstraintDetailWhere(schema, table, constraint) ==
  {c \in ConstraintsOf(schema, table) : c.conname = constraint}

\* get_constraint_details' query: one row per group (the GROUP BY includes c.oid),
\* no ORDER BY.
constraint_details_query(schema, table, constraint) ==
  LET S == ConstraintDetailWhere(schema, table, constraint)
      sorted == OrderByKey(S, [c \in S |-> c.conname], [c \in S |-> c.oid])
  IN  [i \in DOMAIN sorted |-> ConstraintDetailRow(sorted[i])]

\* pg_index ix JOIN pg_class i JOIN pg_class t ON t.oid = ix.indrelid
\*   JOIN pg_namespace n ON n.oid = t.relnamespace JOIN pg_am am
\* WHERE n.nspname = $1 AND t.relname = $2.  A row of the variable pg_index holds
\* the index's pg_index row with the pg_class and pg_am rows its oid joins to.
IndexesOf(schema, table) ==
  {ix \in pg_index :
     \E t \in pg_class :
       /\ t.oid = ix.indrelid /\ t.relname = table
       /\ \E n \in pg_namespace : n.oid = t.relnamespace /\ n.nspname = schema}

\* The joined rows of one index under
\*   LEFT JOIN LATERAL unnest(ix.indkey) WITH ORDINALITY AS k(attnum, i) ON TRUE
\*   LEFT JOIN pg_attribute a ON a.attrelid = t.oid AND a.attnum = k.attnum.
IndexKeyRows(ix) ==
  LET k == LeftJoinUnnest(ix.indkey, TRUE)
  IN  [r \in DOMAIN k |->
         [i |-> k[r].attposition, attname |-> AttName(ix.indrelid, k[r].attnum)]]

\* The output row of get_table_indexes for one index.
IndexRow(ix) ==
  LET rows == IndexKeyRows(ix)
  IN  [index_name |-> ix.relname, index_definition |-> <<"indexdef", ix.indexrelid>>,
       description |-> ix.descr, index_type |-> ix.amname,
       column_names |->
         ArrayAgg([r \in DOMAIN rows |-> [k |-> rows[r].i, v |-> rows[r].attname]]),
       is_unique |-> ix.indisunique, is_primary |-> ix.indisprimary,
       is_exclusion |-> ix.indisexclusion]

\* get_table_indexes' query: ORDER BY i.relname.
table_indexes_query(schema, table) ==
  LET S == IndexesOf(schema, table)
      sorted == OrderByKey(S, [ix \in S |-> ix.relname], [ix \in S |-> ix.indexrelid])
  IN  [i \in DOMAIN sorted |-> IndexRow(sorted[i])]

\* The output row of get_index_details for one index.
IndexDetailRow(ix) ==
  LET rows == IndexKeyRows(ix)
  IN  [index_name |-> ix.relname, index_definition |-> <<"indexdef", ix.indexrelid>>,
       description |-> ix.descr, index_type |-> ix.amname,
       is_unique |-> ix.indisunique, is_primary |-> ix.indisprimary,
       is_exclusion |-> ix.indisexclusion, is_immediate |-> ix.indimmediate,
       is_clustered |-> ix.indisclustered, is_valid |-> ix.indisvalid,
       pages |-> ix.relpages, rows |-> ix.reltuples,
       column_names |->
         ArrayAgg([r \in DOMAIN rows |-> [k |-> rows[r].i, v |-> rows[r].attname]]),
       column_expressions |->
         ArrayAgg([r \in DOMAIN rows |->
                     [k |-> rows[r].i, v |-> <<"indexdef", ix.indexrelid, rows[r].i>>]])]

\* WHERE n.nspname = $1 AND t.relname = $2 AND i.relname = $3.
IndexDetailWhere(schema, table, index) ==
  {ix \in IndexesOf(schema, table) : ix.relname = index}

\* get_index_details' query: one row per group (the GROUP BY includes i.oid).
index_details_query(schema, table, index) ==
  LET S == IndexDetailWhere(schema, table, index)
      sorted == OrderByKey(S, [ix \in S |-> ix.relname], [ix \in S |-> ix.indexrelid])
  IN  [i \in DOMAIN sorted |-> IndexDetailRow(sorted[i])]

\* The per-facet resources hold their own copies of the query text.
list_schemas_query ==
  LET S == {n \in pg_namespace :
              /\ n.nspname \notin {pg_catalog, information_schema, pg_toast}
              /\ ~Like(n.nspname, <<"p", "g", "_", "%">>)}
      sorted == OrderByKey(S, [n \in S |-> n.nspname], [n \in S |-> n.oid])
  IN  [i \in DOMAIN sorted |->
         [schema_name |-> sorted[i].nspname, description |-> sorted[i].descr]]

list_schema_tables_query(schema) ==
  LET S == {t \in pg_class :
              /\ \E n \in pg_namespace : n.oid = t.relnamespace /\ n.nspname = schema
              /\ t.relkind = "r"}
      sorted == OrderByKey(S, [t \in S |-> t.relname], [t \in S |-> t.oid])
  IN  [i \in DOMAIN sorted |->
         [table_name |-> sorted[i].relname, description |-> sorted[i].descr,
          total_rows |-> sorted[i].ins]]

table_columns_query(schema, table) ==
  LET S == {a \in TableColumns :
              \E t \in pg_class :
                /\ t.oid = a.attrelid /\ t.relname = table
                /\ \E n \in pg_namespace : n.oid = t.relnamespace /\ n.nspname = schema}
      rows == [i \in 1..Cardinality(S) |->
                 CHOOSE a \in S : Cardinality({b \in S : b.attnum < a.attnum}) = i - 1]
  IN  [i \in DOMAIN rows |->
         [column_name |-> rows[i].attname, data_type |-> rows[i].data_type,
          is_nullable |-> rows[i].is_nullable, column_default |-> rows[i].column_default,
          description |-> rows[i].descr]]

\* ------------------------------------------------------ the drawn catalogs
\* The sequences of n distinct elements of S.
InjSeqs(S, n) == {s \in [1..n -> S] : \A i, j \in 1..n : i # j => s[i] # s[j]}

\* The key-column arrays of lo to hi distinct columns of a relation.
Keys(relid, lo, hi) == UNION {InjSeqs(AttNums(relid), n) : n \in lo..hi}

ConOid(relid, name) == 200 + 10 * (relid - 100) + (IF name = k1 THEN 1 ELSE 2)

Con(relid, name, contype, conkey, confrelid, confkey) ==
  [oid |-> ConOid(relid, name), conname |-> name,
   connamespace |-> Class(relid).relnamespace, conrelid |-> relid,
   contype |-> contype, conkey |-> conkey, confrelid |-> confrelid,
   confkey |-> confkey, descr |-> NullStr]

\* The constraints a relation can carry under one name: primary key, unique,
\* exclusion (over columns, or over one expression: key column 0), check (over
\* columns or none), constraint trigger (no key array), not-null (a type code the
\* queries have no label for) and foreign key to public.stock.
ConstraintPool(relid, name) ==
  {Con(relid, name, ty, k, 0, NullArray) :
     ty \in {"p", "u", "x"}, k \in Keys(relid, 1, MaxKeyLen)}
  \cup {Con(relid, name, "x", <<0>>, 0, NullArray)}
  \cup {Con(relid, name, "c", k, 0, NullArray) : k \in Keys(relid, 0, MaxKeyLen)}
  \cup {Con(relid, name, "t", NullArray, 0, NullArray)}
  \cup {Con(relid, name, "n", k, 0, NullArray) : k \in Keys(relid, 1, 1)}
  \cup UNION {{Con(relid, name, "f", k, 102, fk) : fk \in InjSeqs(AttNums(102), Len(k))} :
              k \in Keys(relid, 1, MaxKeyLen)}

AllConstraints ==
  ConstraintPool(101, k1) \cup ConstraintPool(101, k2) \cup ConstraintPool(103, k1)

\* The sets of at most n constraints, no two under one name on one relation.
RECURSIVE ConstraintDraws(_)
ConstraintDraws(n) ==
  IF n = 0 THEN {{}}
  ELSE LET prev == ConstraintDraws(n - 1)
       IN  prev \cup {pr[1] \cup {pr[2]} :
                        pr \in {q \in prev \X AllConstraints :
                                  \A d \in q[1] : d.oid # q[2].oid}}

IdxOid(relid, name) ==
  300 + 10 * (Class(relid).relnamespace - 20) + (IF name = i1 THEN 1 ELSE 2)

\* An index of a relation: indkey holds a column number, or 0 for an expression,
\* per key entry.
Idx(relid, name, indkey) ==
  [indexrelid |-> IdxOid(relid, name), indrelid |-> relid, indkey |-> indkey,
   relname |-> name, amname |-> "btree", descr |-> NullStr,
   indisunique |-> FALSE, indisprimary |-> FALSE, indisexclusion |-> FALSE,
   indimmediate |-> TRUE, indisclustered |-> FALSE, indisvalid |-> TRUE,
   relpages |-> 1, reltuples |-> 0]

IndexPool(relid, name) ==
  {Idx(relid, name, k) :
     k \in UNION {InjSeqs(AttNums(relid) \cup {0}, n) : n \in 1..MaxKeyLen}}

AllIndexes ==
  IndexPool(101, i1) \cup IndexPool(101, i2) \cup IndexPool(102, i1) \cup IndexPool(103, i1)

\* The sets of at most n indexes, no two under one name in one schema.
RECURSIVE IndexDraws(_)
IndexDraws(n) ==
  IF n = 0 THEN {{}}
  ELSE LET prev == IndexDraws(n - 1)
       IN  prev \cup {pr[1] \cup {pr[2]} :
                        pr \in {q \in prev \X AllIndexes :
                                  \A d \in q[1] : d.indexrelid # q[2].indexrelid}}

NamespaceDraws == {BaseNamespaces \cup X : X \in SUBSET OptionalNamespaces}

\* ------------------------------------------------------------- the server
vars == <<pg_namespace, pg_constraint, pg_index, pc, schemas, si, tables, ti, columns,
          result, schema_info, table_info, qlog, db_raised, resp, clients, call>>

\* The schema and table names a client asks about.
SchemaArgs == {public, app}
TableArgs == {orders, stock}
ConstraintArgs == {k1, k2}
IndexArgs == {i1, i2}

\* execute_query(sql, conn_id, params): the rows of the statement, or the
\* database's error when it raises.
execute_query(rows, raised) ==
  IF raised THEN [status |-> "error"] ELSE [status |-> "ok", rows |-> rows]

\* No call runs and no response waits for the dispatcher.
Idle == pc = "idle" /\ resp.status = "none"

\* A resource of one statement: return await execute_query(query, conn_id, params).
Resource(op, args, rows) ==
  /\ Idle
  /\ \E raised \in BOOLEAN :
       LET r == execute_query(rows, raised)
       IN  /\ db_raised' = raised
           /\ qlog' = <<[q |-> op, args |-> args]>>
           /\ resp' = IF r.status = "ok"
                      THEN [op |-> op, args |-> args, status |-> "ok", rows |-> r.rows]
                      ELSE [op |-> op, args |-> args, status |-> "error"]
  /\ UNCHANGED <<catalog_vars, db_info_vars, sample_vars>>

list_schemas == Resource("list_schemas", <<>>, list_schemas_query)

list_schema_tables ==
  \E schema \in SchemaArgs :
    Resource("list_schema_tables", <<schema>>, list_schema_tables_query(schema))

get_table_columns ==
  \E schema \in SchemaArgs, table \in TableArgs :
    Resource("get_table_columns", <<schema, table>>, table_columns_query(schema, table))

get_table_indexes ==
  \E schema \in SchemaArgs, table \in TableArgs :
    Resource("get_table_indexes", <<schema, table>>, table_indexes_query(schema, table))

get_table_constraints ==
  \E schema \in SchemaArgs, table \in TableArgs :
    Resource("get_table_constraints", <<schema, table>>,
             table_constraints_query(schema, table))

get_index_details ==
  \E schema \in SchemaArgs, table \in TableArgs, index \in IndexArgs :
    Resource("get_index_details", <<schema, table, index>>,
             index_details_query(schema, table, index))

get_constraint_details ==
  \E schema \in SchemaArgs, table \in TableArgs, constraint \in ConstraintArgs :
    Resource("get_constraint_details", <<schema, table, constraint>>,
             constraint_details_query(schema, table, constraint))

\* ---------------------------------------------------------------- db_info
NewSchemaInfo(schema) ==
  [name |-> schema.schema_name, description |-> schema.description, tables |-> <<>>]

NewTableInfo(table) ==
  [name |-> table.table_name, description |-> table.description,
   row_count |-> table.row_count, columns |-> <<>>, foreign_keys |-> <<>>]

\* column_name in constraint.get('column_names', []).
NameIn(column_name, column_names) ==
  \E i \in DOMAIN column_names : column_names[i] = column_name

\* The column_info of one column row against the table's constraint rows.
ColumnInfo(column, constraints) ==
  LET Applies(constraint) == NameIn(column.column_name, constraint.column_names)
      applying == SelectSeq(constraints, Applies)
  IN  [name |-> column.column_name, type |-> column.data_type,
       nullable |-> (column.is_nullable = "YES"), default |-> column.column_default,
       description |-> column.description,
       constraints |-> [i \in DOMAIN applying |-> applying[i].constraint_type_desc]]

FkInfo(fk) ==
  [name |-> fk.constraint_name, columns |-> fk.column_names,
   referenced_schema |-> fk.referenced_schema, referenced_table |-> fk.referenced_table,
   referenced_columns |-> fk.referenced_columns]

\* Raise with the exception caught and the document built so far returned.
Raise_ReturnPartial ==
  /\ resp' = [op |-> "db_info", args |-> <<>>, status |-> "ok",
              value |-> [schemas |-> result]]
  /\ pc' = "idle" /\ schemas' = <<>> /\ si' = 0 /\ tables' = <<>> /\ ti' = 0
  /\ columns' = <<>> /\ result' = <<>> /\ schema_info' = <<>> /\ table_info' = <<>>

\* The exception of a failed query leaves db_info: no document is returned.
Raise ==
  /\ resp' = [op |-> "db_info", args |-> <<>>, status |-> "error"]
  /\ pc' = "idle" /\ schemas' = <<>> /\ si' = 0 /\ tables' = <<>> /\ ti' = 0
  /\ columns' = <<>> /\ result' = <<>> /\ schema_info' = <<>> /\ table_info' = <<>>

\* return result.
Return(schema_infos) ==
  /\ resp' = [op |-> "db_info", args |-> <<>>, status |-> "ok",
              value |-> [schemas |-> schema_infos]]
  /\ pc' = "idle" /\ schemas' = <<>> /\ si' = 0 /\ tables' = <<>> /\ ti' = 0
  /\ columns' = <<>> /\ result' = <<>> /\ schema_info' = <<>> /\ table_info' = <<>>

\* result["schemas"].append(schema_info), and the next turn of the schema loop.
NextSchema(finished) ==
  IF si < Len(schemas)
  THEN /\ result' = Append(result, finished)
       /\ si' = si + 1
       /\ schema_info' = NewSchemaInfo(schemas[si + 1])
       /\ tables' = <<>> /\ ti' = 0 /\ columns' = <<>> /\ table_info' = <<>>
       /\ pc' = "tables"
       /\ UNCHANGED <<schemas, resp>>
  ELSE Return(Append(result, finished))

\* schema_info["tables"].append(table_info), and the next turn of the table loop.
NextTable(finished) ==
  LET info == [schema_info EXCEPT !.tables = Append(@, finished)]
  IN  IF ti < Len(tables)
      THEN /\ schema_info' = info
           /\ ti' = ti + 1
           /\ table_info' = NewTableInfo(tables[ti + 1])
           /\ columns' = <<>>
           /\ pc' = "columns"
           /\ UNCHANGED <<schemas, si, tables, result, resp>>
      ELSE NextSchema(info)

\* schemas = await execute_query(schemas_query, conn_id), up to the next await.
db_info_schemas ==
  /\ Idle
  /\ \E raised \in BOOLEAN :
       LET r == execute_query(schemas_query, raised)
       IN  /\ db_raised' = raised
           /\ qlog' = <<[q |-> "schemas_query", args |-> <<>>]>>
           /\ IF r.status = "error" THEN Raise
              ELSE IF r.rows = <<>> THEN Return(<<>>)
              ELSE /\ schemas' = r.rows
                   /\ si' = 1
                   /\ schema_info' = NewSchemaInfo(r.rows[1])
                   /\ pc' = "tables"
                   /\ resp' = [op |-> "db_info", args |-> <<>>, status |-> "pending"]
                   /\ UNCHANGED <<tables, ti, columns, result, table_info>>
  /\ UNCHANGED <<catalog_vars, sample_vars>>

\* tables = await execute_query(tables_query, conn_id, [schema_name]).
db_info_tables ==
  /\ pc = "tables"
  /\ \E raised \in BOOLEAN :
       LET r == execute_query(tables_query(schema_info.name), raised)
       IN  /\ db_raised' = raised
           /\ qlog' = Append(qlog, [q |-> "tables_query", args |-> <<schema_info.name>>])
           /\ IF r.status = "error" THEN Raise
              ELSE IF r.rows = <<>> THEN NextSchema(schema_info)
              ELSE /\ tables' = r.rows
                   /\ ti' = 1
                   /\ table_info' = NewTableInfo(r.rows[1])
                   /\ pc' = "columns"
                   /\ UNCHANGED <<schemas, si, columns, result, schema_info, resp>>
  /\ UNCHANGED <<catalog_vars, sample_vars>>

\* columns = await execute_query(columns_query, conn_id, [schema_name, table_name]).
db_info_columns ==
  /\ pc = "columns"
  /\ \E raised \in BOOLEAN :
       LET r == execute_query(columns_query(schema_info.name, table_info.name), raised)
       IN  /\ db_raised' = raised
           /\ qlog' = Append(qlog, [q |-> "columns_query",
                                     args |-> <<schema_info.name, table_info.name>>])
           /\ IF r.status = "error" THEN Raise
              ELSE /\ columns' = r.rows
                   /\ pc' = "constraints"
                   /\ UNCHANGED <<schemas, si, tables, ti, result, schema_info,
                                  table_info, resp>>
  /\ UNCHANGED <<catalog_vars, sample_vars>>

\* constraints = await execute_query(constraints_query, ...), then the column loop.
db_info_constraints ==
  /\ pc = "constraints"
  /\ \E raised \in BOOLEAN :
       LET r == execute_query(constraints_query(schema_info.name, table_info.name), raised)
       IN  /\ db_raised' = raised
           /\ qlog' = Append(qlog, [q |-> "constraints_query",
                                     args |-> <<schema_info.name, table_info.name>>])
           /\ IF r.status = "error" THEN Raise
              ELSE /\ table_info' =
                        [table_info EXCEPT !.columns =
                           [i \in DOMAIN columns |-> ColumnInfo(columns[i], r.rows)]]
                   /\ pc' = "foreign_keys"
                   /\ UNCHANGED <<schemas, si, tables, ti, columns, result,
                                  schema_info, resp>>
  /\ UNCHANGED <<catalog_vars, sample_vars>>

\* foreign_keys = await execute_query(foreign_keys_query, ...), then the fk loop and
\* the two appends that end the turn.
db_info_foreign_keys ==
  /\ pc = "foreign_keys"
  /\ \E raised \in BOOLEAN :
       LET r == execute_query(foreign_keys_query(schema_info.name, table_info.name), raised)
       IN  /\ db_raised' = raised
           /\ qlog' = Append(qlog, [q |-> "foreign_keys_query",
                                     args |-> <<schema_info.name, table_info.name>>])
           /\ IF r.status = "error" THEN Raise
              ELSE NextTable([table_info EXCEPT !.foreign_keys =
                                [i \in DOMAIN r.rows |-> FkInfo(r.rows[i])]])
  /\ UNCHANGED <<catalog_vars, sample_vars>>

\* The dispatcher serialises what the call returned (or maps its exception to a
\* failure response) and the server waits for the next request.
deliver ==
  /\ pc = "idle"
  /\ resp.status \in {"ok", "error"}
  /\ resp' = [op |-> "none", args |-> <<>>, status |-> "none"]
  /\ qlog' = <<>>
  /\ UNCHANGED <<catalog_vars, db_info_vars, db_raised, sample_vars>>

\* ---------------------------------------------------------- specification
Init ==
  /\ \/ /\ pg_namespace \in NamespaceDraws
        /\ pg_constraint = {}
        /\ pg_index = {}
     \/ /\ pg_namespace = BaseNamespaces \cup OptionalNamespaces
        /\ pg_constraint \in ConstraintDraws(MaxCons)
        /\ pg_index = {}
     \/ /\ pg_namespace = BaseNamespaces \cup OptionalNamespaces
        /\ pg_constraint = {}
        /\ pg_index \in IndexDraws(MaxIdx)
  /\ pc = "idle" /\ schemas = <<>> /\ si = 0 /\ tables = <<>> /\ ti = 0
  /\ columns = <<>> /\ result = <<>> /\ schema_info = <<>> /\ table_info = <<>>
  /\ qlog = <<>>
  /\ db_raised = FALSE
  /\ resp = [op |-> "none", args |-> <<>>, status |-> "none"]
  /\ clients = <<>>
  /\ call = <<>>

Next ==
  \/ list_schemas
  \/ list_schema_tables
  \/ get_table_columns
  \/ get_table_indexes
  \/ get_table_constraints
  \/ get_index_details
  \/ get_constraint_details
  \/ db_info_schemas
  \/ db_info_tables
  \/ db_info_columns
  \/ db_info_constraints
  \/ db_info_foreign_keys
  \/ deliver

Spec == Init /\ [][Next]_vars

\* ---------------------------------------------------------------- sampling
\* app/resources/data.py.  A statement text is a sequence of strings: the literal
\* pieces of the source, and the characters spliced in between them.
LowerCase ==
  << "a", "b", "c", "d", "e", "f", "g", "h", "i", "j", "k", "l", "m", "n", "o", "p",
     "q", "r", "s", "t", "u", "v", "w", "x", "y", "z" >>
UpperCase ==
  << "A", "B", "C", "D", "E", "F", "G", "H", "I", "J", "K", "L", "M", "N", "O", "P",
     "Q", "R", "S", "T", "U", "V", "W", "X", "Y", "Z" >>
Digits == {"0", "1", "2"}
Range(f) == {f[i] : i \in DOMAIN f}

\* The reserved key words among the names of the model.
ReservedWords == {<<"a", "s">>}

\* PostgreSQL's quote_ident: the name itself when it is a lower-case identifier
\* that is no reserved word, else the name between double quotes with every
\* double quote in it doubled.
RECURSIVE DoubleQuotes(_)
DoubleQuotes(name) ==
  IF name = <<>> THEN <<>>
  ELSE (IF Head(name) = "\"" THEN <<"\"", "\"">> ELSE <<Head(name)>>)
       \o DoubleQuotes(Tail(name))

quote_ident(name) ==
  LET safe == /\ name # <<>>
              /\ Head(name) \in Range(LowerCase) \cup {"_"}
              /\ \A i \in DOMAIN name : name[i] \in Range(LowerCase) \cup Digits \cup {"_"}
              /\ name \notin ReservedWords
  IN  IF safe THEN name ELSE <<"\"">> \o DoubleQuotes(name) \o <<"\"">>

\* The tables that hold rows, as (schema, table, row count).
heap ==
  { <<public, orders, OrdersRows>>,
    <<public, <<"A", "\"">>, 2>>,
    <<<<"a", "s">>, <<"t", "1">>, 0>> }

\* How the server reads an identifier at the head of text: a quoted one up to its
\* closing quote ("" is one quote), or a run of identifier characters folded to
\* lower case. [ok, name, rest].
RECURSIVE LexQuoted(_, _)
LexQuoted(text, acc) ==
  IF text = <<>> THEN [ok |-> FALSE, name |-> acc, rest |-> <<>>]
  ELSE IF Head(text) # "\"" THEN LexQuoted(Tail(text), Append(acc, Head(text)))
  ELSE IF Len(text) >= 2 /\ text[2] = "\""
       THEN LexQuoted(Tail(Tail(text)), Append(acc, "\""))
  ELSE [ok |-> acc # <<>>, name |-> acc, rest |-> Tail(text)]

Fold(ch) ==
  IF ch \in Range(UpperCase)
  THEN LowerCase[CHOOSE i \in DOMAIN UpperCase : UpperCase[i] = ch]
  ELSE ch

RECURSIVE LexPlain(_, _)
LexPlain(text, acc) ==
  IF text # <<>> /\ Head(text) \in Range(LowerCase) \cup Range(UpperCase) \cup Digits \cup {"_"}
  THEN LexPlain(Tail(text), Append(acc, Fold(Head(text))))
  ELSE [ok |-> acc # <<>> /\ acc[1] \notin Digits /\ acc \notin ReservedWords,
        name |-> acc, rest |-> text]

LexIdent(text) ==
  IF text # <<>> /\ Head(text) = "\"" THEN LexQuoted(Tail(text), <<>>)
  ELSE LexPlain(text, <<>>)

\* The relation a statement SELECT * FROM <schema>.<table> LIMIT $1 names, when the
\* text is such a statement.
ParseSelect(text) ==
  IF Len(text) >= 2 /\ text[1] = "SELECT * FROM " /\ text[Len(text)] = " LIMIT $1"
  THEN LET first == LexIdent(SubSeq(text, 2, Len(text) - 1))
           second == LexIdent(Tail(first.rest))
       IN  IF /\ first.ok /\ first.rest # <<>> /\ Head(first.rest) = "."
              /\ second.ok /\ second.rest = <<>>
           THEN [ok |-> TRUE, schema |-> first.name, table |-> second.name]
           ELSE [ok |-> FALSE]
  ELSE [ok |-> FALSE]

\* A server that ignored LIMIT.
Fetch_WholeTable(text, limit) ==
  LET parsed == ParseSelect(text)
      found == IF parsed.ok
               THEN {h \in heap : h[1] = parsed.schema /\ h[2] = parsed.table}
               ELSE {}
  IN  IF found = {} \/ limit < 0 THEN [status |-> "error"]
      ELSE [status |-> "ok", rows |-> [i \in 1..(CHOOSE h \in found : TRUE)[3] |-> i]]

\* conn.fetch(query, limit) on the server: a syntax error, an unknown relation and
\* a negative LIMIT raise; else the first rows of the table, at most limit.
Fetch(text, limit) ==
  LET parsed == ParseSelect(text)
      found == IF parsed.ok
               THEN {h \in heap : h[1] = parsed.schema /\ h[2] = parsed.table}
               ELSE {}
  IN  IF found = {} \/ limit < 0 THEN [status |-> "error"]
      ELSE LET n == (CHOOSE h \in found : TRUE)[3]
           IN  [status |-> "ok", rows |-> [i \in 1..(IF limit < n THEN limit ELSE n) |-> i]]

\* limit=10, the default of get_sample_data; the 10 sample_table_data passes.
DefaultLimit == 10
SampleLimit == 10

\* The identifiers and limits callers send.
RawNames ==
  { public, orders, <<"A", "\"">>, <<"a", "s">>, <<"t", "1">>, <<>>,
    <<"o", "\"", ".", "\"", "x">> }
LimitArgs == {-1, 0, 1, 11, 13}

\* The requests: get_sample_data with a limit, get_sample_data without one, and
\* the sample resource.
Requests(schemaArgs, tableArgs, limits) ==
  {[via |-> "get_sample_data", schema |-> sc, table |-> tb, limit |-> l, defaulted |-> FALSE] :
     sc \in schemaArgs, tb \in tableArgs, l \in limits}
  \cup {[via |-> v, schema |-> sc, table |-> tb, limit |-> NullNum, defaulted |-> v = "get_sample_data"] :
          v \in {"get_sample_data", "sample_table_data"}, sc \in schemaArgs, tb \in tableArgs}

NoCall ==
  [pc |-> "idle", via |-> "none", schema |-> <<>>, table |-> <<>>, limit |-> 0,
   defaulted |-> FALSE, schema_ident |-> <<>>, table_ident |-> <<>>, stmts |-> <<>>,
   acquired |-> 0, released |-> 0, raised |-> FALSE, ret |-> [status |-> "none"],
   outcome |-> [status |-> "none"]]

\* A caller enters get_sample_data(db, schema, table, limit) or, with defaulted,
\* get_sample_data(db, schema, table).
get_sample_data(c) ==
  /\ call[c].pc = "idle"
  /\ \E r \in clients[c] :
       /\ r.via = "get_sample_data"
       /\ call' = [call EXCEPT ![c] =
                     [NoCall EXCEPT !.pc = "acquire", !.via = r.via,
                                    !.schema = r.schema, !.table = r.table,
                                    !.limit = IF r.defaulted THEN DefaultLimit ELSE r.limit,
                                    !.defaulted = r.defaulted]]
  /\ UNCHANGED <<catalog_vars, db_info_vars, qlog, db_raised, resp, clients>>

\* sample_table_data(schema, table): return await get_sample_data(db, schema, table, 10).
sample_table_data(c) ==
  /\ call[c].pc = "idle"
  /\ \E r \in clients[c] :
       /\ r.via = "sample_table_data"
       /\ call' = [call EXCEPT ![c] =
                     [NoCall EXCEPT !.pc = "acquire", !.via = r.via,
                                    !.schema = r.schema, !.table = r.table,
                                    !.limit = SampleLimit]]
  /\ UNCHANGED <<catalog_vars, db_info_vars, qlog, db_raised, resp, clients>>

\* async with db.get_connection() as conn: entering acquires a connection, or
\* raises when none can be had.
get_sample_data_acquire(c) ==
  /\ call[c].pc = "acquire"
  /\ \E raised \in BOOLEAN :
       call' = [call EXCEPT ![c] =
                  IF raised
                  THEN [@ EXCEPT !.pc = "idle", !.outcome = [status |-> "connection_error"]]
                  ELSE [@ EXCEPT !.pc = "quote_schema", !.acquired = @ + 1]]
  /\ UNCHANGED <<catalog_vars, db_info_vars, qlog, db_raised, resp, clients>>

QuoteStatement == <<"SELECT quote_ident($1)">>

\* A get_sample_data that called quote_ident and kept the schema as it came.
get_sample_data_quote_schema_Raw(c) ==
  /\ call[c].pc = "quote_schema"
  /\ call' = [call EXCEPT ![c] =
                [@ EXCEPT !.pc = "quote_table",
                          !.stmts = Append(@, [text |-> <<"SELECT quote_ident($1)">>,
                                               params |-> <<call[c].schema>>]),
                          !.schema_ident = call[c].schema]]
  /\ UNCHANGED <<catalog_vars, db_info_vars, qlog, db_raised, resp, clients>>

\* schema_ident = await conn.fetchval("SELECT quote_ident($1)", schema).
get_sample_data_quote_schema(c) ==
  /\ call[c].pc = "quote_schema"
  /\ \E raised \in BOOLEAN :
       call' = [call EXCEPT ![c] =
                  LET sent == [@ EXCEPT !.stmts = Append(@, [text |-> QuoteStatement,
                                                             params |-> <<call[c].schema>>])]
                  IN  IF raised
                      THEN [sent EXCEPT !.pc = "release", !.raised = TRUE,
                                        !.ret = [status |-> "error"]]
                      ELSE [sent EXCEPT !.pc = "quote_table",
                                        !.schema_ident = quote_ident(call[c].schema)]]
  /\ UNCHANGED <<catalog_vars, db_info_vars, qlog, db_raised, resp, clients>>

\* table_ident = await conn.fetchval("SELECT quote_ident($1)", table).
get_sample_data_quote_table(c) ==
  /\ call[c].pc = "quote_table"
  /\ \E raised \in BOOLEAN :
       call' = [call EXCEPT ![c] =
                  LET sent == [@ EXCEPT !.stmts = Append(@, [text |-> QuoteStatement,
                                                             params |-> <<call[c].table>>])]
                  IN  IF raised
                      THEN [sent EXCEPT !.pc = "release", !.raised = TRUE,
                                        !.ret = [status |-> "error"]]
                      ELSE [sent EXCEPT !.pc = "fetch",
                                        !.table_ident = quote_ident(call[c].table)]]
  /\ UNCHANGED <<catalog_vars, db_info_vars, qlog, db_raised, resp, clients>>

\* query = f"SELECT * FROM {schema_ident}.{table_ident} LIMIT $1".
SelectText(schema_ident, table_ident) ==
  <<"SELECT * FROM ">> \o schema_ident \o <<".">> \o table_ident \o <<" LIMIT $1">>

\* return await conn.fetch(query, limit): the rows, or the database's error (one
\* the statement earns, or one of the connection).
get_sample_data_fetch(c) ==
  /\ call[c].pc = "fetch"
  /\ \E raised \in BOOLEAN :
       call' = [call EXCEPT ![c] =
                  LET query == SelectText(call[c].schema_ident, call[c].table_ident)
                      sent == [@ EXCEPT !.stmts = Append(@, [text |-> query,
                                                             params |-> <<call[c].limit>>])]
                  IN  [sent EXCEPT !.pc = "release", !.raised = raised,
                                   !.ret = IF raised THEN [status |-> "error"]
                                           ELSE Fetch(query, call[c].limit)]]
  /\ UNCHANGED <<catalog_vars, db_info_vars, qlog, db_raised, resp, clients>>

\* A get_sample_data that released the connection only on the way of return.
get_sample_data_release_OnReturn(c) ==
  /\ call[c].pc = "release"
  /\ call' = [call EXCEPT ![c] =
                [@ EXCEPT !.pc = "idle",
                          !.released = IF call[c].ret.status = "ok" THEN @ + 1 ELSE @,
                          !.outcome = call[c].ret]]
  /\ UNCHANGED <<catalog_vars, db_info_vars, qlog, db_raised, resp, clients>>

\* Leaving the async with block, by return or by exception, releases the
\* connection; then the call ends with the rows or the exception.
get_sample_data_release(c) ==
  /\ call[c].pc = "release"
  /\ call' = [call EXCEPT ![c] = [@ EXCEPT !.pc = "idle", !.released = @ + 1,
                                            !.outcome = call[c].ret]]
  /\ UNCHANGED <<catalog_vars, db_info_vars, qlog, db_raised, resp, clients>>

SampleInit(cl) ==
  /\ pg_namespace = BaseNamespaces /\ pg_constraint = {} /\ pg_index = {}
  /\ pc = "idle" /\ schemas = <<>> /\ si = 0 /\ tables = <<>> /\ ti = 0
  /\ columns = <<>> /\ result = <<>> /\ schema_info = <<>> /\ table_info = <<>>
  /\ qlog = <<>>
  /\ db_raised = FALSE
  /\ resp = [op |-> "none", args |-> <<>>, status |-> "none"]
  /\ clients = cl
  /\ call = [c \in DOMAIN cl |-> NoCall]

\* One caller, any request.
InitSample == SampleInit([c \in {1} |-> Requests(RawNames, RawNames, LimitArgs)])

\* NCalls callers at once, each sampling a table that exists or one that does not.
InitPool == SampleInit([c \in 1..NCalls |-> Requests({public}, {orders, stock}, {1})])

NextSample ==
  \/ \E c \in DOMAIN clients : get_sample_data(c)
  \/ \E c \in DOMAIN clients : sample_table_data(c)
  \/ \E c \in DOMAIN clients : get_sample_data_acquire(c)
  \/ \E c \in DOMAIN clients : get_sample_data_quote_schema(c)
  \/ \E c \in DOMAIN clients : get_sample_data_quote_table(c)
  \/ \E c \in DOMAIN clients : get_sample_data_fetch(c)
  \/ \E c \in DOMAIN clients : get_sample_data_release(c)

SpecSample == InitSample /\ [][NextSample]_vars

SpecPool == InitPool /\ [][NextSample]_vars

\* ------------------------------------------------------------------ claims
\* What the catalog itself says, for stating the claims.
RelationsNamed(schema, table) ==
  {t \in pg_class : t.relname = table /\ NamespaceOf(t).nspname = schema}

ConstraintsOn(schema, table) ==
  {c \in pg_constraint : \E t \in RelationsNamed(schema, table) : c.conrelid = t.oid}

IndexesOn(schema, table) ==
  {ix \in pg_index : \E t \in RelationsNamed(schema, table) : ix.indrelid = t.oid}

\* The names of the columns of a key-column array, entry by entry.
KeyColumns(relid, arr) == [i \in DOMAIN Unnest(arr) |-> AttName(relid, arr[i])]

Finished(op) == resp.op = op /\ resp.status = "ok"

\* The (schema, table) positions of a document, and the entries at one.
DocTables(doc) ==
  {p \in (DOMAIN doc.schemas) \X (1..4) : p[2] \in DOMAIN doc.schemas[p[1]].tables}
DocSchema(doc, p) == doc.schemas[p[1]]
DocTable(doc, p) == doc.schemas[p[1]].tables[p[2]]

HasKey(c) == Unnest(c.conkey) # <<>>

\* C1 as claimed: for every constraint of a table, the column_names of the
\* constraints listing, of the single-constraint detail and of db_info's
\* foreign-key entries is the constraint's key-column array name by name (as many
\* entries as conkey, in key order, none repeated), and the detail's column_names
\* equals the listing's.  Stated for the constraints whose key-column array has
\* an entry; those with none are the case of C4.
C1_ColumnNamesFollowKey ==
  /\ Finished("get_table_constraints") =>
       \A i \in DOMAIN resp.rows :
         \A c \in ConstraintsOn(resp.args[1], resp.args[2]) :
           c.conname = resp.rows[i].constraint_name /\ HasKey(c) =>
             resp.rows[i].column_names = KeyColumns(c.conrelid, c.conkey)
  /\ Finished("get_constraint_details") =>
       \A i \in DOMAIN resp.rows :
         /\ \A c \in ConstraintsOn(resp.args[1], resp.args[2]) :
              c.conname = resp.rows[i].constraint_name /\ HasKey(c) =>
                resp.rows[i].column_names = KeyColumns(c.conrelid, c.conkey)
         /\ LET listing == table_constraints_query(resp.args[1], resp.args[2])
            IN  \A j \in DOMAIN listing :
                  listing[j].constraint_name = resp.rows[i].constraint_name =>
                    listing[j].column_names = resp.rows[i].column_names
  /\ Finished("db_info") =>
       \A p \in DocTables(resp.value) :
         LET t == DocTable(resp.value, p)
         IN  \A i \in DOMAIN t.foreign_keys :
               \A c \in ConstraintsOn(DocSchema(resp.value, p).name, t.name) :
                 c.conname = t.foreign_keys[i].name =>
                   t.foreign_keys[i].columns = KeyColumns(c.conrelid, c.conkey)

\* The pairs (local column, referenced column) of a foreign key.
FkPairs(c) ==
  {<<AttName(c.conrelid, c.conkey[j]), AttName(c.confrelid, c.confkey[j])>> :
     j \in DOMAIN c.conkey}

Paired(c, local, referenced) ==
  /\ Len(local) = Len(referenced)
  /\ \A i \in DOMAIN local : <<local[i], referenced[i]>> \in FkPairs(c)

\* C2: in every foreign key of db_info's document and of get_constraint_details,
\* the local and the referenced column lists have the same length and the i-th
\* local column is the one the foreign key pairs with the i-th referenced column.
C2_ForeignKeyColumnsPaired ==
  /\ Finished("db_info") =>
       \A p \in DocTables(resp.value) :
         LET t == DocTable(resp.value, p)
         IN  \A i \in DOMAIN t.foreign_keys :
               \A c \in ConstraintsOn(DocSchema(resp.value, p).name, t.name) :
                 c.conname = t.foreign_keys[i].name =>
                   Paired(c, t.foreign_keys[i].columns, t.foreign_keys[i].referenced_columns)
  /\ Finished("get_constraint_details") =>
       \A i \in DOMAIN resp.rows :
         resp.rows[i].constraint_type = "f" =>
           \A c \in ConstraintsOn(resp.args[1], resp.args[2]) :
             c.conname = resp.rows[i].constraint_name =>
               Paired(c, resp.rows[i].column_names, resp.rows[i].referenced_columns)

\* A foreign key over two columns has been returned, by db_info or by the detail.
C2_Witness ==
  \E c \in pg_constraint :
    /\ c.contype = "f" /\ Len(c.conkey) = 2 /\ c.conrelid = 101 /\ c.confkey = <<2, 1>>
    /\ \/ /\ Finished("db_info")
          /\ \E p \in DocTables(resp.value) :
               \E i \in DOMAIN DocTable(resp.value, p).foreign_keys :
                 DocTable(resp.value, p).foreign_keys[i].name = c.conname
       \/ /\ Finished("get_constraint_details")
          /\ resp.args = <<public, orders, c.conname>>
          /\ Len(resp.rows) = 1

\* The labels of the listing rows whose column_names hold a column.
ListingLabels(schema, table, column_name) ==
  LET listing == table_constraints_query(schema, table)
  IN  {listing[j].constraint_type_desc :
         j \in {x \in DOMAIN listing : NameIn(column_name, listing[x].column_names)}}

\* C3 as claimed: for every (schema, table) of db_info's document, the columns
\* are those of get_table_columns in the same order with the same type,
\* nullability, default and description, and each column's constraint labels are
\* exactly the constraint_type_desc values of the get_table_constraints rows whose
\* column_names hold the column.  (The claim's last clause, that the index data
\* of get_table_indexes is in the document, fails for every document: table_info
\* has no key for indexes.)
C3_DocumentAgreesWithFacets ==
  Finished("db_info") =>
    \A p \in DocTables(resp.value) :
      LET schema == DocSchema(resp.value, p).name
          t == DocTable(resp.value, p)
          facet == table_columns_query(schema, t.name)
      IN  /\ Len(t.columns) = Len(facet)
          /\ \A i \in DOMAIN t.columns :
               /\ t.columns[i].name = facet[i].column_name
               /\ t.columns[i].type = facet[i].data_type
               /\ t.columns[i].nullable = (facet[i].is_nullable = "YES")
               /\ t.columns[i].default = facet[i].column_default
               /\ t.columns[i].description = facet[i].description
               /\ {t.columns[i].constraints[j] : j \in DOMAIN t.columns[i].constraints}
                    = ListingLabels(schema, t.name, t.columns[i].name)

\* An index none of whose key entries is a plain column.
NoPlainColumn(ix) == \A i \in DOMAIN ix.indkey : ix.indkey[i] = 0

\* C4 as claimed: a constraint whose key-column array is empty or absent, and an
\* index with no plain key column, comes back from the listing and detail
\* queries with column_names the empty list, and the query does not fail
\* (db_info's constraints_query is the rows db_info holds before its foreign-key
\* query).
C4_NoColumnsIsEmptyList ==
  /\ resp.op \in {"get_table_constraints", "get_constraint_details",
                   "get_table_indexes", "get_index_details"}
       => (resp.status = "error" => db_raised)
  /\ Finished("get_table_constraints") \/ Finished("get_constraint_details") =>
       \A i \in DOMAIN resp.rows :
         \A c \in ConstraintsOn(resp.args[1], resp.args[2]) :
           c.conname = resp.rows[i].constraint_name /\ ~HasKey(c) =>
             resp.rows[i].column_names = <<>>
  /\ Finished("get_table_indexes") \/ Finished("get_index_details") =>
       \A i \in DOMAIN resp.rows :
         \A ix \in IndexesOn(resp.args[1], resp.args[2]) :
           ix.relname = resp.rows[i].index_name /\ NoPlainColumn(ix) =>
             resp.rows[i].column_names = <<>>
  /\ pc = "foreign_keys" =>
       LET rows == constraints_query(schema_info.name, table_info.name)
       IN  \A i \in DOMAIN rows :
             \A c \in ConstraintsOn(schema_info.name, table_info.name) :
               c.conname = rows[i].constraint_name /\ ~HasKey(c) =>
                 rows[i].column_names = <<>>

\* name begins with the characters of prefix, each taken literally.
HasPrefix(name, prefix) ==
  /\ Len(name) >= Len(prefix)
  /\ \A i \in DOMAIN prefix : name[i] = prefix[i]

\* The schemas the claim lists: none of the three named ones, none whose name
\* begins with the three characters pg_.
UserSchemaNames ==
  {n.nspname : n \in {x \in pg_namespace :
                        /\ x.nspname \notin {pg_catalog, information_schema, pg_toast}
                        /\ ~HasPrefix(x.nspname, <<"p", "g", "_">>)}}

Ascending(names) ==
  \A i, j \in DOMAIN names : i < j => TextLess(names[i], names[j])

\* C5 as claimed: list_schemas and the schema step of db_info return, in
\* ascending name order, exactly the schemas whose name is none of pg_catalog,
\* information_schema, pg_toast and does not begin with the literal characters
\* pg_ (so pgdata and pgx are listed).
C5_ExactlyTheUserSchemas ==
  /\ Finished("list_schemas") =>
       LET names == [i \in DOMAIN resp.rows |-> resp.rows[i].schema_name]
       IN  Ascending(names) /\ {names[i] : i \in DOMAIN names} = UserSchemaNames
  /\ pc = "tables" =>
       LET names == [i \in DOMAIN schemas |-> schemas[i].schema_name]
       IN  Ascending(names) /\ {names[i] : i \in DOMAIN names} = UserSchemaNames
  /\ Finished("db_info") =>
       LET names == [i \in DOMAIN resp.value.schemas |-> resp.value.schemas[i].name]
       IN  Ascending(names) /\ {names[i] : i \in DOMAIN names} = UserSchemaNames

RECURSIVE TableQueries(_, _)
TableQueries(schema, ts) ==
  IF ts = <<>> THEN <<>>
  ELSE << [q |-> "columns_query", args |-> <<schema, Head(ts).table_name>>],
          [q |-> "constraints_query", args |-> <<schema, Head(ts).table_name>>],
          [q |-> "foreign_keys_query", args |-> <<schema, Head(ts).table_name>>] >>
       \o TableQueries(schema, Tail(ts))

RECURSIVE SchemaQueries(_)
SchemaQueries(ss) ==
  IF ss = <<>> THEN <<>>
  ELSE << [q |-> "tables_query", args |-> <<Head(ss).schema_name>>] >>
       \o TableQueries(Head(ss).schema_name, tables_query(Head(ss).schema_name))
       \o SchemaQueries(Tail(ss))

QueryPlan == << [q |-> "schemas_query", args |-> <<>>] >> \o SchemaQueries(schemas_query)

IsPrefix(a, b) == Len(a) <= Len(b) /\ \A i \in DOMAIN a : a[i] = b[i]

\* C10: db_info issues its queries in dependency order (the schemas query, then
\* per schema in returned order its tables query, then per table in returned
\* order its columns, constraints and foreign-keys queries), none twice; once a
\* query has failed it issues no other, the caller gets the failure and no
\* document; on success the document holds every returned schema and table once,
\* in returned order.
C10_QueriesInDependencyOrder ==
  resp.op = "db_info" =>
    /\ IsPrefix(qlog, QueryPlan)
    /\ \A i, j \in DOMAIN qlog : i # j => qlog[i] # qlog[j]
    /\ resp.status = "pending" => ~db_raised /\ pc # "idle"
    /\ resp.status = "error" =>
         db_raised /\ pc = "idle" /\ "value" \notin DOMAIN resp
    /\ resp.status = "ok" =>
         /\ ~db_raised /\ pc = "idle"
         /\ qlog = QueryPlan
         /\ [i \in DOMAIN resp.value.schemas |-> resp.value.schemas[i].name]
              = [i \in DOMAIN schemas_query |-> schemas_query[i].schema_name]
         /\ \A i \in DOMAIN resp.value.schemas :
              LET ts == tables_query(resp.value.schemas[i].name)
              IN  [j \in DOMAIN resp.value.schemas[i].tables |->
                     resp.value.schemas[i].tables[j].name]
                  = [j \in DOMAIN ts |-> ts[j].table_name]

\* db_info failed at the constraints query of its second table.
C10_Witness ==
  /\ resp.op = "db_info" /\ resp.status = "error"
  /\ Len(qlog) = 8
  /\ qlog[8].q = "constraints_query"

\* The calls of get_sample_data that have ended, and those that have ended after
\* entering the async with block.
Ended(c) == call[c].pc = "idle" /\ call[c].outcome.status # "none"
EndedInBlock(c) == Ended(c) /\ call[c].outcome.status \in {"ok", "error"}

QuoteOf(name) == [text |-> QuoteStatement, params |-> <<name>>]

\* The statements of a call that ran to its last: quote the schema, quote the
\* table, select.
Statements(c) ==
  << QuoteOf(call[c].schema), QuoteOf(call[c].table),
     [text |-> SelectText(quote_ident(call[c].schema), quote_ident(call[c].table)),
      params |-> <<call[c].limit>>] >>

\* C7: in get_sample_data the schema and the table reach the server only as the
\* bound parameter of a quote_ident statement, the schema first; the SELECT
\* comes after both, its text is the fixed pieces around the two results of
\* quote_ident, which the server reads back as the names the caller gave, and its
\* only parameter is the limit; when a quote_ident statement fails it is the last
\* statement of the call.
C7_IdentifiersOnlyQuoted ==
  \A c \in DOMAIN call :
    LET sent == call[c].stmts
    IN  /\ IsPrefix(sent, Statements(c))
        /\ call[c].pc \in {"acquire", "quote_schema"} => sent = <<>>
        /\ call[c].pc = "quote_table" => Len(sent) = 1
        /\ call[c].pc = "fetch" => Len(sent) = 2
        /\ (Ended(c) /\ call[c].raised /\ Len(sent) < 3) =>
              \A i \in DOMAIN sent : sent[i].text = QuoteStatement
        /\ (Len(sent) = 3 /\ call[c].schema # <<>> /\ call[c].table # <<>>) =>
              ParseSelect(sent[3].text) =
                [ok |-> TRUE, schema |-> call[c].schema, table |-> call[c].table]

\* A SELECT went out for names that quote_ident had to quote, a double quote and a
\* dot among their characters.
C7_Witness ==
  \E c \in DOMAIN call :
    /\ Len(call[c].stmts) = 3
    /\ call[c].schema = <<"o", "\"", ".", "\"", "x">>
    /\ call[c].table = <<"A", "\"">>
    /\ call[c].stmts[3].text # SelectText(call[c].schema, call[c].table)

\* C8: a call of get_sample_data that ends by returning rows or by the failure of
\* a quote_ident statement or of the SELECT has acquired one connection and
\* released it once; no call releases what it has not acquired or holds more than
\* one connection; a call that has ended holds none.
C8_OneConnectionReleasedOnce ==
  \A c \in DOMAIN call :
    /\ call[c].released <= call[c].acquired
    /\ call[c].acquired <= 1
    /\ EndedInBlock(c) => call[c].acquired = 1 /\ call[c].released = 1
    /\ call[c].pc = "idle" => call[c].acquired = call[c].released
    /\ call[c].pc \in {"quote_schema", "quote_table", "fetch", "release"} =>
          call[c].acquired = 1 /\ call[c].released = 0

\* One call has ended by a failed statement while another holds its connection.
C8_Witness ==
  \E c, d \in DOMAIN call :
    /\ c # d
    /\ Ended(c) /\ call[c].outcome.status = "error" /\ call[c].released = 1
    /\ call[d].pc = "fetch" /\ call[d].acquired = 1

Existing(c) == \E h \in heap : h[1] = call[c].schema /\ h[2] = call[c].table

\* C9: a call of get_sample_data that returns rows returns at most limit of them;
\* on an existing table with limit 0 and no failure of the database it returns
\* the empty sequence, and with any limit >= 0 it returns rows; a call without a
\* limit sends 10 as the limit, and so does the sample resource.
C9_AtMostLimitRows ==
  \A c \in DOMAIN call :
    Ended(c) =>
      /\ call[c].outcome.status = "ok" => Len(call[c].outcome.rows) <= call[c].limit
      /\ (Existing(c) /\ ~call[c].raised /\ call[c].outcome.status # "connection_error"
            /\ call[c].limit >= 0) =>
            /\ call[c].outcome.status = "ok"
            /\ call[c].limit = 0 => call[c].outcome.rows = <<>>
      /\ (call[c].defaulted \/ call[c].via = "sample_table_data") =>
            /\ call[c].limit = 10
            /\ Len(call[c].stmts) = 3 => call[c].stmts[3].params = <<10>>

\* A call without a limit returned 10 rows of a table that has more.
C9_Witness ==
  \E c \in DOMAIN call :
    /\ Ended(c) /\ call[c].defaulted /\ call[c].outcome.status = "ok"
    /\ Len(call[c].outcome.rows) = 10
    /\ OrdersRows > 10

\* The labels db_info's constraints query gives the constraints of a table whose
\* column list holds a column.
FetchedLabels(schema, table, column_name) ==
  LET fetched == constraints_query(schema, table)
  IN  {fetched[j].constraint_type_desc :
         j \in {x \in DOMAIN fetched : NameIn(column_name, fetched[x].column_names)}}

\* C11 as claimed: in the document of db_info the constraints of a column hold a
\* label if and only if a constraint fetched for the table has the column in its
\* column list and that label, and hold no label twice.
C11_ConstraintsIsASetOfLabels ==
  Finished("db_info") =>
    \A p \in DocTables(resp.value) :
      LET schema == DocSchema(resp.value, p).name
          t == DocTable(resp.value, p)
      IN  \A i \in DOMAIN t.columns :
            LET labels == t.columns[i].constraints
            IN  /\ {labels[j] : j \in DOMAIN labels}
                     = FetchedLabels(schema, t.name, t.columns[i].name)
                /\ \A j, k \in DOMAIN labels : labels[j] = labels[k] => j = k

====
